---- MODULE Spec2Model ----
(***************************************************************************)
(* crypto_price_monitor.py: one run of main (fetch, threshold check,       *)
(* webhook delivery) and the threshold evaluator check_price_thresholds.   *)
(*                                                                         *)
(* Python values are modelled as tagged records: None is [none |-> TRUE],  *)
(* a JSON number is [num |-> v], a string is [str |-> s], a dict is        *)
(* [items |-> <<[key, value], ...>>] in insertion order.  A coin entry of  *)
(* the price response is a record whose DOMAIN is the set of keys present. *)
(* Prices are whole US dollars.                                            *)
(***************************************************************************)
EXTENDS Integers, Sequences, FiniteSets, TLC

VARIABLES
    monitors,             \* current value of the module global MONITORS
    DISCORD_WEBHOOK_URL,  \* module global read from the environment at import
    pc,                   \* position of the process
    prices,               \* main's local `prices` / the evaluator's argument
    alerts,               \* main's local `alerts` (last value returned)
    i,                    \* position of main's `for alert in alerts`
    posts,                \* HTTP POSTs issued to the webhook, with their outcome
    log,                  \* lines printed to stdout
    fetchOutcome,         \* what the HTTP GET did (history)
    calls,                \* functions invoked by main, in order (history)
    returns               \* results of check_price_thresholds calls (history)

vars == <<monitors, DISCORD_WEBHOOK_URL, pc, prices, alerts, i, posts, log,
          fetchOutcome, calls, returns>>

(* ------------------------------ bounds --------------------------------- *)

\* sampled prices lie within MaxDelta dollars of a shipped threshold
MaxDelta == 1
\* number of times the evaluator harness calls check_price_thresholds
MaxCalls == 2

(* --------------------------- Python values ----------------------------- *)

None == [none |-> TRUE]
Num(v) == [num |-> v]
Str(s) == [str |-> s]
Dict(items) == [items |-> items]

IsNumber(x) == DOMAIN x = {"num"}

\* Python truthiness as used by `if not x` / `if x`
TruthyUnlessNone(x) == "none" \notin DOMAIN x

Truthy(x) ==
    IF "none" \in DOMAIN x THEN FALSE
    ELSE IF "str" \in DOMAIN x THEN x.str # ""
    ELSE IF "items" \in DOMAIN x THEN x.items # <<>>
    ELSE TRUE

\* `key in d`
Contains(d, key) == \E k \in 1..Len(d.items) : d.items[k].key = key

\* `d[key]` for a key that is present
Get(d, key) == d.items[CHOOSE k \in 1..Len(d.items) : d.items[k].key = key].value

(* --------------------------- configuration ----------------------------- *)

MONITORS ==
    << [coin_id |-> "bitcoin", symbol |-> "BTC",
        low_threshold |-> 40000, high_threshold |-> 70000],
       [coin_id |-> "ethereum", symbol |-> "ETH",
        low_threshold |-> 2500, high_threshold |-> 4000],
       [coin_id |-> "binancecoin", symbol |-> "BNB",
        low_threshold |-> 300, high_threshold |-> 500] >>

\* Configurations handed to the evaluator: the shipped one, and the shipped
\* one with a single coin's thresholds swapped (low > high) or equal.
Swapped(t) == [t EXCEPT !.low_threshold = t.high_threshold,
                        !.high_threshold = t.low_threshold]
Collapsed(t) == [t EXCEPT !.high_threshold = t.low_threshold]

ConfigVariants ==
    {MONITORS}
    \cup {[MONITORS EXCEPT ![k] = Swapped(MONITORS[k])] : k \in 1..Len(MONITORS)}
    \cup {[MONITORS EXCEPT ![k] = Collapsed(MONITORS[k])] : k \in 1..Len(MONITORS)}

WebhookValues == {None, Str(""), Str("https://discord.example/api/webhooks/1")}

(* ------------------------- price API responses ------------------------- *)

Absent == [absent |-> TRUE]

Points(t) ==
    UNION {{t.low_threshold - d, t.low_threshold + d,
            t.high_threshold - d, t.high_threshold + d} : d \in 0..MaxDelta}

\* What the decoded body can hold for one coin: a price with its 24h change,
\* a price without the change key, no 'usd' key, a non-numeric price, a
\* non-numeric change.
Entries(t) ==
    {[usd |-> Num(p), usd_24h_change |-> Num(-1)] : p \in Points(t)}
    \cup {[usd |-> Num(t.low_threshold)]}
    \cup {[usd_24h_change |-> Num(-1)],
          [usd |-> Str("n/a"), usd_24h_change |-> Num(-1)],
          [usd |-> Num(t.low_threshold), usd_24h_change |-> Str("n/a")]}

\* order of the keys of the decoded body, as indices into MONITORS
Orders == Permutations(1..Len(MONITORS))

Body(order, pick) ==
    LET all == [k \in 1..Len(order) |->
                   [key |-> MONITORS[order[k]].coin_id, value |-> pick[order[k]]]]
    IN  Dict(SelectSeq(all, LAMBDA it : it.value # Absent))

Responses ==
    {Body(order, pick) :
        order \in Orders,
        pick \in (Entries(MONITORS[1]) \cup {Absent})
                 \X (Entries(MONITORS[2]) \cup {Absent})
                 \X (Entries(MONITORS[3]) \cup {Absent})}

FetchFailures == {"network_error", "http_error", "malformed_body"}

(* --------------------------- get_crypto_prices ------------------------- *)

\* what the GET can do: raise (requests.get, raise_for_status or .json()),
\* or return a decoded body
FetchOutcomes ==
    {[error |-> e] : e \in FetchFailures} \cup {[body |-> b] : b \in Responses}

get_crypto_prices(outcome) ==
    IF "error" \in DOMAIN outcome
    THEN [ret |-> None, log |-> <<<<"fetch_failed", outcome.error>>>>]
    ELSE [ret |-> outcome.body, log |-> <<>>]

(* ------------------------- check_price_thresholds ---------------------- *)

Alert(thresholds, direction, price, threshold, change) ==
    [symbol |-> thresholds.symbol, direction |-> direction, price |-> price,
     threshold |-> threshold, change |-> change]

Raise == [raised |-> TRUE, alerts |-> <<>>, log |-> <<>>]

\* line 79
BelowLow(price, thresholds) == price <= thresholds.low_threshold

\* line 89
AboveHighStrict(price, thresholds) == price > thresholds.high_threshold

AboveHigh(price, thresholds) == price >= thresholds.high_threshold

\* lines 78-96: the if / elif appending at most one alert
ThresholdAlertsTwoIfs(thresholds, price, change) ==
    (IF BelowLow(price, thresholds)
     THEN <<Alert(thresholds, "below", price, thresholds.low_threshold, change)>>
     ELSE <<>>)
    \o (IF AboveHigh(price, thresholds)
        THEN <<Alert(thresholds, "above", price, thresholds.high_threshold, change)>>
        ELSE <<>>)

ThresholdAlertsHighFirst(thresholds, price, change) ==
    IF AboveHigh(price, thresholds)
    THEN <<Alert(thresholds, "above", price, thresholds.high_threshold, change)>>
    ELSE IF BelowLow(price, thresholds)
    THEN <<Alert(thresholds, "below", price, thresholds.low_threshold, change)>>
    ELSE <<>>

ThresholdAlerts(thresholds, price, change) ==
    IF BelowLow(price, thresholds)
    THEN <<Alert(thresholds, "below", price, thresholds.low_threshold, change)>>
    ELSE IF AboveHigh(price, thresholds)
    THEN <<Alert(thresholds, "above", price, thresholds.high_threshold, change)>>
    ELSE <<>>

\* lines 73-99: one iteration of the loop over MONITORS.items()
CheckCoin(p, thresholds) ==
    IF ~Contains(p, thresholds.coin_id)
    THEN [raised |-> FALSE, alerts |-> <<>>, log |-> <<>>]
    ELSE LET entry == Get(p, thresholds.coin_id) IN
         IF "usd" \notin DOMAIN entry THEN Raise           \* KeyError, line 74
         ELSE LET current_price == entry.usd
                  change_24h == IF "usd_24h_change" \in DOMAIN entry
                                THEN entry.usd_24h_change ELSE Num(0)
              IN  IF ~IsNumber(current_price) THEN Raise   \* TypeError, line 79
                  ELSE IF ~IsNumber(change_24h) THEN Raise \* :.2f, lines 84, 94, 99
                  ELSE [raised |-> FALSE,
                        alerts |-> ThresholdAlerts(thresholds, current_price.num,
                                                   change_24h.num),
                        log |-> <<<<"price", thresholds.symbol>>>>]

RECURSIVE CheckLoop(_, _, _, _, _)
CheckLoop(p, mons, k, acc, out) ==
    IF k > Len(mons)
    THEN [raised |-> FALSE, alerts |-> acc, log |-> out]
    ELSE LET r == CheckCoin(p, mons[k]) IN
         IF r.raised
         THEN [raised |-> TRUE, alerts |-> <<>>, log |-> out \o r.log]
         ELSE CheckLoop(p, mons, k + 1, acc \o r.alerts, out \o r.log)

\* the loop driven by prices.items() instead of MONITORS.items()
check_in_prices_order(p, mons) ==
    LET byKey(key) == mons[CHOOSE k \in 1..Len(mons) : mons[k].coin_id = key]
        known == SelectSeq(p.items,
                           LAMBDA it : \E k \in 1..Len(mons) : mons[k].coin_id = it.key)
    IN  CheckLoop(p, [k \in 1..Len(known) |-> byKey(known[k].key)], 1, <<>>, <<>>)

check_price_thresholds(p, mons) == CheckLoop(p, mons, 1, <<>>, <<>>)

(* --------------------------- send_discord_alert ------------------------ *)

PostOutcomes == {"ok", "unreachable", "http_error"}

\* outcome is what the POST does if one is issued
send_discord_alert(url, message, outcome) ==
    IF ~Truthy(url)
    THEN [posts |-> <<>>, log |-> <<<<"no_webhook">>>>]
    ELSE [posts |-> <<[message |-> message, outcome |-> outcome]>>,
          log |-> IF outcome = "ok"
                  THEN <<<<"sent", message.symbol>>>>
                  ELSE <<<<"send_failed", message.symbol>>>>]

(* --------------------------------- main -------------------------------- *)

Init ==
    /\ monitors = MONITORS
    /\ DISCORD_WEBHOOK_URL \in WebhookValues
    /\ pc = "start"
    /\ prices = None
    /\ alerts = <<>>
    /\ i = 1
    /\ posts = <<>>
    /\ log = <<>>
    /\ fetchOutcome = "none"
    /\ calls = <<>>
    /\ returns = <<>>

\* a fetch that is attempted a second time after a failure
MainFetchRetry ==
    /\ pc = "start"
    /\ \E outcome \in FetchOutcomes :
         LET r == get_crypto_prices(outcome) IN
         /\ prices' = r.ret
         /\ log' = log \o <<<<"banner">>>> \o r.log
         /\ fetchOutcome' = IF "error" \in DOMAIN outcome THEN outcome.error ELSE "ok"
         /\ calls' = IF "error" \in DOMAIN outcome
                     THEN calls \o <<<<"get_crypto_prices">>, <<"get_crypto_prices">>>>
                     ELSE Append(calls, <<"get_crypto_prices">>)
    /\ pc' = "fetched"
    /\ UNCHANGED <<monitors, DISCORD_WEBHOOK_URL, alerts, i, posts, returns>>

\* main, lines 122-127: banner, prices = get_crypto_prices()
MainFetch ==
    /\ pc = "start"
    /\ \E outcome \in FetchOutcomes :
         LET r == get_crypto_prices(outcome) IN
         /\ prices' = r.ret
         /\ log' = log \o <<<<"banner">>>> \o r.log
         /\ fetchOutcome' = IF "error" \in DOMAIN outcome THEN outcome.error ELSE "ok"
    /\ calls' = Append(calls, <<"get_crypto_prices">>)
    /\ pc' = "fetched"
    /\ UNCHANGED <<monitors, DISCORD_WEBHOOK_URL, alerts, i, posts, returns>>

\* main, lines 129-131
MainNoPrices ==
    /\ pc = "fetched"
    /\ ~Truthy(prices)
    /\ log' = Append(log, <<"no_price_data">>)
    /\ pc' = "done"
    /\ UNCHANGED <<monitors, DISCORD_WEBHOOK_URL, prices, alerts, i, posts,
                   fetchOutcome, calls, returns>>

\* the check reached without the `if not prices: return` guard: on None,
\* `coin_id in prices` raises TypeError
MainCheckUnguarded ==
    /\ pc = "fetched"
    /\ IF "items" \in DOMAIN prices
       THEN LET r == check_price_thresholds(prices, monitors) IN
            /\ alerts' = IF r.raised THEN alerts ELSE r.alerts
            /\ log' = log \o r.log
            /\ returns' = Append(returns, [raised |-> r.raised, alerts |-> r.alerts])
            /\ pc' = IF r.raised THEN "crashed" ELSE "checked"
       ELSE /\ pc' = "crashed"
            /\ returns' = Append(returns, [raised |-> TRUE, alerts |-> <<>>])
            /\ UNCHANGED <<alerts, log>>
    /\ calls' = Append(calls, <<"check_price_thresholds">>)
    /\ i' = 1
    /\ UNCHANGED <<monitors, DISCORD_WEBHOOK_URL, prices, posts, fetchOutcome>>

\* main, line 134: alerts = check_price_thresholds(prices)
MainCheck ==
    /\ pc = "fetched"
    /\ Truthy(prices)
    /\ LET r == check_price_thresholds(prices, monitors) IN
       /\ alerts' = IF r.raised THEN alerts ELSE r.alerts
       /\ log' = log \o r.log
       /\ returns' = Append(returns, [raised |-> r.raised, alerts |-> r.alerts])
       /\ pc' = IF r.raised THEN "crashed" ELSE "checked"
    /\ calls' = Append(calls, <<"check_price_thresholds">>)
    /\ i' = 1
    /\ UNCHANGED <<monitors, DISCORD_WEBHOOK_URL, prices, posts, fetchOutcome>>

\* main, lines 140-141
MainNoAlerts ==
    /\ pc = "checked"
    /\ alerts = <<>>
    /\ log' = Append(log, <<"no_threshold_hit">>)
    /\ pc' = "done"
    /\ UNCHANGED <<monitors, DISCORD_WEBHOOK_URL, prices, alerts, i, posts,
                   fetchOutcome, calls, returns>>

\* a delivery whose failure is not caught and ends the run
MainSendAbortOnFailure ==
    /\ pc = "checked"
    /\ alerts # <<>>
    /\ i <= Len(alerts)
    /\ \E outcome \in PostOutcomes :
         LET r == send_discord_alert(DISCORD_WEBHOOK_URL, alerts[i], outcome) IN
         /\ posts' = posts \o r.posts
         /\ log' = log \o r.log
         /\ pc' = IF r.posts # <<>> /\ outcome # "ok" THEN "crashed" ELSE pc
    /\ calls' = Append(calls, <<"send_discord_alert", alerts[i].symbol>>)
    /\ i' = i + 1
    /\ UNCHANGED <<monitors, DISCORD_WEBHOOK_URL, prices, alerts,
                   fetchOutcome, returns>>

\* main, lines 138-139: one iteration of the loop, send_discord_alert(alert)
MainSend ==
    /\ pc = "checked"
    /\ alerts # <<>>
    /\ i <= Len(alerts)
    /\ \E outcome \in PostOutcomes :
         LET r == send_discord_alert(DISCORD_WEBHOOK_URL, alerts[i], outcome) IN
         /\ posts' = posts \o r.posts
         /\ log' = log \o r.log
    /\ calls' = Append(calls, <<"send_discord_alert", alerts[i].symbol>>)
    /\ i' = i + 1
    /\ UNCHANGED <<monitors, DISCORD_WEBHOOK_URL, pc, prices, alerts,
                   fetchOutcome, returns>>

\* main, end of the loop: the function returns
MainReturn ==
    /\ pc = "checked"
    /\ alerts # <<>>
    /\ i > Len(alerts)
    /\ pc' = "done"
    /\ UNCHANGED <<monitors, DISCORD_WEBHOOK_URL, prices, alerts, i, posts, log,
                   fetchOutcome, calls, returns>>

Next ==
    \/ MainFetch
    \/ MainNoPrices
    \/ MainCheck
    \/ MainNoAlerts
    \/ MainSend
    \/ MainReturn

Spec == Init /\ [][Next]_vars

(* ------------------ check_price_thresholds called directly ------------- *)

\* The evaluator called up to MaxCalls times on the same arguments, with a
\* configuration from ConfigVariants and a prices mapping from Responses.
InitEval ==
    /\ monitors \in ConfigVariants
    /\ DISCORD_WEBHOOK_URL \in {Str("https://discord.example/api/webhooks/1")}
    /\ pc = "eval"
    /\ prices \in Responses
    /\ alerts = <<>>
    /\ i = 1
    /\ posts = <<>>
    /\ log = <<>>
    /\ fetchOutcome = "none"
    /\ calls = <<>>
    /\ returns = <<>>

\* `def check_price_thresholds(prices, alerts=[])`: the list shared by all calls
CallCheckSharedList ==
    /\ pc = "eval"
    /\ Len(returns) < MaxCalls
    /\ LET r == check_price_thresholds(prices, monitors)
           all == alerts \o r.alerts
       IN
       /\ alerts' = IF r.raised THEN alerts ELSE all
       /\ log' = log \o r.log
       /\ returns' = Append(returns, [raised |-> r.raised,
                                      alerts |-> IF r.raised THEN <<>> ELSE all])
    /\ calls' = Append(calls, <<"check_price_thresholds">>)
    /\ UNCHANGED <<monitors, DISCORD_WEBHOOK_URL, pc, prices, i, posts, fetchOutcome>>

\* alerts = check_price_thresholds(prices)
CallCheck ==
    /\ pc = "eval"
    /\ Len(returns) < MaxCalls
    /\ LET r == check_price_thresholds(prices, monitors) IN
       /\ alerts' = IF r.raised THEN alerts ELSE r.alerts
       /\ log' = log \o r.log
       /\ returns' = Append(returns, [raised |-> r.raised, alerts |-> r.alerts])
    /\ calls' = Append(calls, <<"check_price_thresholds">>)
    /\ UNCHANGED <<monitors, DISCORD_WEBHOOK_URL, pc, prices, i, posts, fetchOutcome>>

NextEval == CallCheck

SpecEval == InitEval /\ [][NextEval]_vars

(* ------------------------------ properties ----------------------------- *)

\* calls of check_price_thresholds that returned
Returned == {n \in 1..Len(returns) : ~returns[n].raised}

\* positions, in a returned alert sequence, of the alerts of one coin
AlertsOf(n, t) == {k \in 1..Len(returns[n].alerts) : returns[n].alerts[k].symbol = t.symbol}

PriceOf(t) == Get(prices, t.coin_id).usd.num

Count(seq, line) == Cardinality({k \in 1..Len(seq) : seq[k] = line})

Configured == DISCORD_WEBHOOK_URL \notin {None, Str("")}

FetchFailed == fetchOutcome \in FetchFailures

\* C1: whenever check_price_thresholds returns, a configured coin has an alert
\* in the result if and only if it is present in prices and its price is
\* <= low_threshold or >= high_threshold (bounds inclusive).
C1_AlertIffThresholdReached ==
    \A n \in Returned : \A k \in 1..Len(monitors) :
        LET t == monitors[k] IN
        (AlertsOf(n, t) # {})
            <=> /\ Contains(prices, t.coin_id)
                /\ \/ PriceOf(t) <= t.low_threshold
                   \/ PriceOf(t) >= t.high_threshold

\* a result in which one coin alerts exactly at its high threshold, one coin
\* lies strictly between its thresholds and one coin is absent from prices
C1_Witness ==
    \E n \in Returned : \E a, b, c \in 1..Len(monitors) :
        /\ Contains(prices, monitors[a].coin_id)
        /\ PriceOf(monitors[a]) = monitors[a].high_threshold
        /\ monitors[a].low_threshold < monitors[a].high_threshold
        /\ AlertsOf(n, monitors[a]) # {}
        /\ Contains(prices, monitors[b].coin_id)
        /\ PriceOf(monitors[b]) > monitors[b].low_threshold
        /\ PriceOf(monitors[b]) < monitors[b].high_threshold
        /\ AlertsOf(n, monitors[b]) = {}
        /\ ~Contains(prices, monitors[c].coin_id)
        /\ AlertsOf(n, monitors[c]) = {}

\* C2: whenever check_price_thresholds returns, a coin present in prices and
\* in the configuration has at most one alert: a "below" alert naming
\* low_threshold when price <= low_threshold (also when price >= high_threshold
\* holds too), otherwise an "above" alert naming high_threshold when
\* price >= high_threshold.
C2_AtMostOneAlertLowFirst ==
    \A n \in Returned : \A k \in 1..Len(monitors) :
        LET t == monitors[k]
            got == {returns[n].alerts[j] : j \in AlertsOf(n, t)}
        IN  Contains(prices, t.coin_id) =>
              /\ Cardinality(AlertsOf(n, t)) <= 1
              /\ PriceOf(t) <= t.low_threshold =>
                    /\ Cardinality(AlertsOf(n, t)) = 1
                    /\ \A x \in got : /\ x.direction = "below"
                                      /\ x.threshold = t.low_threshold
                                      /\ x.price = PriceOf(t)
              /\ (PriceOf(t) > t.low_threshold /\ PriceOf(t) >= t.high_threshold) =>
                    /\ Cardinality(AlertsOf(n, t)) = 1
                    /\ \A x \in got : /\ x.direction = "above"
                                      /\ x.threshold = t.high_threshold
                                      /\ x.price = PriceOf(t)

\* a result for a coin whose price meets both conditions at once
C2_Witness ==
    \E n \in Returned : \E k \in 1..Len(monitors) :
        /\ Contains(prices, monitors[k].coin_id)
        /\ PriceOf(monitors[k]) <= monitors[k].low_threshold
        /\ PriceOf(monitors[k]) >= monitors[k].high_threshold
        /\ \E j \in AlertsOf(n, monitors[k]) : returns[n].alerts[j].direction = "below"

\* C3: in a run whose fetch failed, the failure is logged, prices is None,
\* check_price_thresholds is never called, nothing is posted, the run never
\* raises and it goes on to return.
C3_FetchFailureEndsRun ==
    FetchFailed =>
        /\ prices = None
        /\ Count(log, <<"fetch_failed", fetchOutcome>>) = 1
        /\ Count(calls, <<"check_price_thresholds">>) = 0
        /\ returns = <<>>
        /\ posts = <<>>
        /\ \A k \in 1..Len(calls) : calls[k][1] # "send_discord_alert"
        /\ pc \in {"fetched", "done"}
        /\ pc = "fetched" => ENABLED MainNoPrices

C3_Witness == FetchFailed /\ pc = "done" /\ fetchOutcome = "malformed_body"

\* C4: with the webhook configured, after check_price_thresholds returned,
\* the alerts before the loop position have each been posted exactly once, in
\* order, whatever the outcomes; each failed post is logged; the run does not
\* raise, and it returns only when every alert has had its attempt.
C4_EveryAlertOneAttempt ==
    (Configured /\ Returned # {}) =>
        /\ pc \in {"checked", "done"}
        /\ Len(posts) = i - 1
        /\ i - 1 <= Len(alerts)
        /\ \A k \in 1..Len(posts) : posts[k].message = alerts[k]
        /\ Cardinality({k \in 1..Len(log) : log[k][1] = "send_failed"})
              = Cardinality({k \in 1..Len(posts) : posts[k].outcome # "ok"})
        /\ pc = "done" => Len(posts) = Len(alerts)
        /\ pc = "checked" => ENABLED (MainSend \/ MainReturn \/ MainNoAlerts)

\* a finished run whose first delivery failed and whose later one was made
C4_Witness ==
    /\ Configured
    /\ pc = "done"
    /\ Len(alerts) = 3
    /\ Len(posts) = 3
    /\ posts[1].outcome = "unreachable"
    /\ posts[2].outcome = "http_error"
    /\ posts[3].outcome = "ok"

\* C5: no run of main ever raises.
C5_NeverCrashes == pc # "crashed"

\* C6: with the webhook URL absent or empty nothing is ever posted; after
\* check_price_thresholds returned, every alert before the loop position was
\* handed to send_discord_alert, which logged the warning; the run does not
\* raise and returns only when every alert was processed.
C6_NoWebhookNoPost ==
    ~Configured =>
        /\ posts = <<>>
        /\ Returned # {} =>
              /\ pc \in {"checked", "done"}
              /\ Count(log, <<"no_webhook">>) = i - 1
              /\ Cardinality({k \in 1..Len(calls) : calls[k][1] = "send_discord_alert"})
                    = i - 1
              /\ pc = "done" => i - 1 = Len(alerts)
              /\ pc = "checked" => ENABLED (MainSend \/ MainReturn \/ MainNoAlerts)

C6_Witness ==
    /\ DISCORD_WEBHOOK_URL = Str("")
    /\ pc = "done"
    /\ Len(alerts) >= 2
    /\ Count(log, <<"no_webhook">>) = Len(alerts)

\* position of a symbol in the configuration
MonitorIndex(symbol) == CHOOSE k \in 1..Len(monitors) : monitors[k].symbol = symbol

\* position of a coin in prices
PricesIndex(coin_id) == CHOOSE k \in 1..Len(prices.items) : prices.items[k].key = coin_id

\* C7: the alerts of a returned sequence are in the order of the
\* configuration: an earlier alert belongs to an earlier MONITORS entry.
C7_ConfigOrder ==
    \A n \in Returned : \A a, b \in 1..Len(returns[n].alerts) :
        a < b => MonitorIndex(returns[n].alerts[a].symbol)
                    < MonitorIndex(returns[n].alerts[b].symbol)

\* two alerts whose coins come in the opposite order in prices
C7_Witness ==
    \E n \in Returned : \E a, b \in 1..Len(returns[n].alerts) :
        /\ a < b
        /\ PricesIndex(monitors[MonitorIndex(returns[n].alerts[a].symbol)].coin_id)
              > PricesIndex(monitors[MonitorIndex(returns[n].alerts[b].symbol)].coin_id)

C9_OneShotSequential ==
    /\ pc = "start" => calls = <<>>
    /\ pc # "start" => Len(calls) >= 1 /\ calls[1] = <<"get_crypto_prices">>
    /\ \A k \in 2..Len(calls) : calls[k] # <<"get_crypto_prices">>
    /\ \A k \in 1..Len(calls) :
          calls[k] = <<"check_price_thresholds">> =>
              k = 2 /\ fetchOutcome = "ok" /\ Truthy(prices)
    /\ \A k \in 1..Len(calls) :
          calls[k][1] = "send_discord_alert" =>
              /\ k >= 3
              /\ calls[2] = <<"check_price_thresholds">>
              /\ Returned # {}
              /\ k - 2 <= Len(alerts)
              /\ calls[k][2] = alerts[k - 2].symbol
    /\ Len(posts) <= Len(calls) - 2 \/ posts = <<>>
    /\ \A k \in 1..Len(posts) :
          \E j \in 3..Len(calls) : calls[j] = <<"send_discord_alert", posts[k].message.symbol>>
    /\ Len(returns) <= 1
    /\ (pc = "done" /\ Returned # {}) => Len(calls) = 2 + Len(alerts)

C9_Witness ==
    /\ pc = "done"
    /\ Len(alerts) = 3
    /\ Len(posts) = 3
    /\ Len(calls) = 5

\* coins of the configuration with low_threshold > high_threshold
Misconfigured == {k \in 1..Len(monitors) :
                     monitors[k].low_threshold > monitors[k].high_threshold}

\* C10 as stated: a coin with low_threshold > high_threshold never gets an
\* "above" alert.
C10_OnlyEverBelow ==
    \A n \in Returned : \A k \in Misconfigured :
        \A j \in AlertsOf(n, monitors[k]) : returns[n].alerts[j].direction # "above"

\* C10 amended: a coin with low_threshold > high_threshold that is present in
\* prices always gets exactly one alert: "below" for every price
\* <= low_threshold (so for every price between the thresholds), and "above"
\* exactly for the prices > low_threshold.
C10_BelowUpToLowAboveBeyond ==
    \A n \in Returned : \A k \in Misconfigured :
        LET t == monitors[k] IN
        Contains(prices, t.coin_id) =>
            /\ Cardinality(AlertsOf(n, t)) = 1
            /\ \A j \in AlertsOf(n, t) :
                  /\ returns[n].alerts[j].direction = "below"
                        <=> PriceOf(t) <= t.low_threshold
                  /\ returns[n].alerts[j].direction = "above"
                        <=> PriceOf(t) > t.low_threshold

\* a misconfigured coin priced above its low_threshold and reported "above"
C10_Witness ==
    \E n \in Returned : \E k \in Misconfigured :
        /\ Contains(prices, monitors[k].coin_id)
        /\ PriceOf(monitors[k]) > monitors[k].low_threshold
        /\ \E j \in AlertsOf(n, monitors[k]) : returns[n].alerts[j].direction = "above"

====
